---- MODULE Spec2Model ----
(***************************************************************************)
(* Shape and order inference of webdnn's spatial operators.                *)
(*                                                                         *)
(* Pooling2D (graph/operators/pooling_2d.py) is modelled from its source:  *)
(* construction stores the normalised ksize / stride / padding, and the    *)
(* call op(x) attaches the input, infers the output variable, retargets it *)
(* to the input's order, attaches it and emits the Tensorwise attributes.  *)
(* Variable, Order and to_tuple are used by that code but defined          *)
(* elsewhere; they follow the description of the data model.               *)
(* Deconvolution2D is exercised by deconvolution2d_test.py; its inference  *)
(* follows the documented contract and is driven by the test's scenarios.  *)
(***************************************************************************)
EXTENDS Integers, Sequences, FiniteSets, TLC

VARIABLES pc, parameters, inputs, outputs, attributes, warnings, err, ret

vars == <<pc, parameters, inputs, outputs, attributes, warnings, err, ret>>

(* ------------------------------ bounds --------------------------------- *)
MaxIn == 3
MaxK == 2
MaxS == 2
MaxP == 1

(* --------------------------- Axis and Order ---------------------------- *)
Axis == {"N", "H", "W", "C"}

OrderNHWC == <<"N", "H", "W", "C">>
OrderHWNC == <<"H", "W", "N", "C">>
OrderHWCN == <<"H", "W", "C", "N">>
OrderNCHW == <<"N", "C", "H", "W">>
OrderCNHW == <<"C", "N", "H", "W">>
OrderCHWN == <<"C", "H", "W", "N">>

\* every arrangement of the four axes
AllOrders == {o \in [1..4 -> Axis] : \A i, j \in 1..4 : o[i] = o[j] => i = j}

\* the orders the deconvolution test iterates over
orders == {OrderNHWC, OrderHWNC, OrderHWCN, OrderNCHW, OrderCNHW, OrderCHWN}

axes_of(order, axis) == CHOOSE i \in 1..Len(order) : order[i] = axis

AxesSet(order) == {order[i] : i \in 1..Len(order)}

(* ------------------------------ Variable ------------------------------- *)
Variable(shape, order) == [shape |-> shape, order |-> order]

shape_dict(v) == [a \in AxesSet(v.order) |-> v.shape[axes_of(v.order, a)]]

change_order(v, new_order) ==
    [shape |-> [i \in 1..Len(new_order) |-> shape_dict(v)[new_order[i]]],
     order |-> new_order]

(* --------------------------- Python integers --------------------------- *)
\* a // b : floor division, defined for every b # 0
FloorDiv(a, b) == IF b > 0 THEN a \div b ELSE (0 - a) \div (0 - b)

\* a % b : the remainder that goes with floor division
Mod(a, b) == a - b * FloorDiv(a, b)

(* ----------------------------- parameters ------------------------------ *)
\* An IntOrTuple argument is written <<k>> for the int k and <<a, b>> for the
\* tuple (a, b); to_tuple repeats a single int and keeps a 2-tuple.
to_tuple(x) == IF Len(x) = 1 THEN <<x[1], x[1]>> ELSE x

ksize(self) == self["ksize"]
stride(self) == self["stride"]
padding(self) == self["padding"]
KH(self) == ksize(self)[1]
KW(self) == ksize(self)[2]
SH(self) == stride(self)[1]
SW(self) == stride(self)[2]
PH(self) == padding(self)[1]
PW(self) == padding(self)[2]

NoSlots == [s \in {} |-> 0]


(* -------------------------- Pooling2D.exec ----------------------------- *)
\* slip: the height uses the width's kernel
H2_WidthKernel(x, self) ==
    FloorDiv(shape_dict(x)["H"] + 2 * PH(self) + SH(self) - KW(self) - 1, SH(self)) + 1

H2(x, self) ==
    FloorDiv(shape_dict(x)["H"] + 2 * PH(self) + SH(self) - KH(self) - 1, SH(self)) + 1

\* slip: the rounding term S - 1 written as S
W2_RoundingTerm(x, self) ==
    FloorDiv(shape_dict(x)["W"] + 2 * PW(self) + SW(self) - KW(self), SW(self)) + 1

W2(x, self) ==
    FloorDiv(shape_dict(x)["W"] + 2 * PW(self) + SW(self) - KW(self) - 1, SW(self)) + 1

\* slip: both remainders required
EdgeIgnored_Both(x, self) ==
    /\ Mod(shape_dict(x)["H"] + 2 * PH(self) - KH(self), SH(self)) # 0
    /\ Mod(shape_dict(x)["W"] + 2 * PW(self) - KW(self), SW(self)) # 0

\* the condition under which exec calls console.warning
EdgeIgnored(x, self) ==
    \/ Mod(shape_dict(x)["H"] + 2 * PH(self) - KH(self), SH(self)) # 0
    \/ Mod(shape_dict(x)["W"] + 2 * PW(self) - KW(self), SW(self)) # 0

\* slip: y is left in N-H-W-C order
OutputY_NotRetargeted(x, self) ==
    Variable(<<shape_dict(x)["N"], H2(x, self), W2(x, self), shape_dict(x)["C"]>>,
             OrderNHWC)

\* slip: y takes x's order without moving its sizes
OutputY_Relabelled(x, self) ==
    Variable(<<shape_dict(x)["N"], H2(x, self), W2(x, self), shape_dict(x)["C"]>>,
             x.order)

\* y = Variable([N, H2, W2, C2], OrderNHWC); y.change_order(x.order)
OutputY(x, self) ==
    change_order(
        Variable(<<shape_dict(x)["N"], H2(x, self), W2(x, self), shape_dict(x)["C"]>>,
                 OrderNHWC),
        x.order)

Tensorwise(axis) == [attr |-> "Tensorwise", axis |-> axis]

\* slip: only the height is skipped
TensorwiseAxes_HeightOnly(order) == SelectSeq(order, LAMBDA a : ~(a = "H" \/ a = "H"))

\* the axes the attribute loop does not skip, in loop order
TensorwiseAxes(order) == SelectSeq(order, LAMBDA a : ~(a = "H" \/ a = "W"))

EmittedAttributes(order) ==
    [i \in 1..Len(TensorwiseAxes(order)) |-> Tensorwise(TensorwiseAxes(order)[i])]

(* ------------------------------ inputs --------------------------------- *)
\* IntOrTuple arguments: a single int (any sign) or an explicit 2-tuple
KsizeArgs == {<<k>> : k \in (0 - 1)..MaxK} \cup ((1..MaxK) \X (1..MaxK))
StrideArgs == {<<s>> : s \in (0 - 1)..MaxS} \cup ((1..MaxS) \X (1..MaxS))
PaddingArgs == {<<p>> : p \in (0 - 1)..MaxP} \cup ((0..MaxP) \X (0..MaxP))

\* batch and channel sizes <<n, c>> of the graph inputs; exec only copies them,
\* so one pair of sizes that no spatial size of the inputs equals by accident
BatchChannel == {<<2, 3>>}

\* graph inputs: built in N-H-W-C order and moved to any order
XArgs ==
    {change_order(Variable(<<nc[1], h, w, nc[2]>>, OrderNHWC), o) :
        nc \in BatchChannel, h \in 1..MaxIn, w \in 1..MaxIn, o \in AllOrders}

(* ------------------------------ actions -------------------------------- *)
Init ==
    /\ pc = "new"
    /\ parameters = NoSlots
    /\ inputs = NoSlots
    /\ outputs = NoSlots
    /\ attributes = <<>>
    /\ warnings = 0
    /\ err = "none"
    /\ ret = <<>>

\* Pooling2D(name, ksize, stride, padding)
Pooling2D_init(k, s, p) ==
    /\ pc = "new"
    /\ parameters' = [ksize |-> to_tuple(k), stride |-> to_tuple(s), padding |-> to_tuple(p)]
    /\ pc' = "constructed"
    /\ UNCHANGED <<inputs, outputs, attributes, warnings, err, ret>>

\* op(x): append_input("x", x), then exec()
Pooling2D_call(x) ==
    /\ pc = "constructed"
    /\ inputs' = ("x" :> x)
    /\ IF SH(parameters) = 0 \/ SW(parameters) = 0
       THEN \* integer division by zero while computing H2 or W2
            /\ pc' = "raised"
            /\ err' = "ZeroDivisionError"
            /\ UNCHANGED <<outputs, attributes, warnings, ret>>
       ELSE /\ warnings' = IF EdgeIgnored(x, parameters) THEN warnings + 1 ELSE warnings
            /\ outputs' = ("y" :> OutputY(x, parameters))
            /\ attributes' = attributes \o EmittedAttributes(x.order)
            /\ ret' = <<OutputY(x, parameters)>>
            /\ pc' = "done"
            /\ UNCHANGED err
    /\ UNCHANGED parameters

\* a frontend constructs the operator ...
Construct ==
    /\ pc = "new"
    /\ \E k \in KsizeArgs, s \in StrideArgs, p \in PaddingArgs : Pooling2D_init(k, s, p)

\* ... and applies it to one variable
Apply ==
    /\ pc = "constructed"
    /\ \E x \in XArgs : Pooling2D_call(x)

Next == Construct \/ Apply

Spec == Init /\ [][Next]_vars


(* --------------------------- Deconvolution2D --------------------------- *)
\* slip: the padding added instead of removed
Deconvolution2D_H2_PaddingAdded(x, self) ==
    (shape_dict(x)["H"] - 1) * SH(self) + 2 * PH(self) + KH(self)

Deconvolution2D_H2(x, self) ==
    (shape_dict(x)["H"] - 1) * SH(self) - 2 * PH(self) + KH(self)

Deconvolution2D_W2(x, self) ==
    (shape_dict(x)["W"] - 1) * SW(self) - 2 * PW(self) + KW(self)

\* N from x, output channels from the weight's N axis, y in x's order
Deconvolution2D_OutputY(x, w, self) ==
    change_order(
        Variable(<<shape_dict(x)["N"], Deconvolution2D_H2(x, self),
                   Deconvolution2D_W2(x, self), shape_dict(w)["N"]>>,
                 OrderNHWC),
        x.order)

\* Deconvolution2D(name, ksize, stride, padding)
Deconvolution2D_init(k, s, p) ==
    /\ pc = "new"
    /\ parameters' = [ksize |-> to_tuple(k), stride |-> to_tuple(s), padding |-> to_tuple(p)]
    /\ pc' = "constructed"
    /\ UNCHANGED <<inputs, outputs, attributes, warnings, err, ret>>

\* op(x, w): both inputs attached, then exec()
Deconvolution2D_call(x, w) ==
    /\ pc = "constructed"
    /\ inputs' = ("x" :> x) @@ ("w" :> w)
    /\ outputs' = ("y" :> Deconvolution2D_OutputY(x, w, parameters))
    /\ attributes' = attributes \o EmittedAttributes(x.order)
    /\ ret' = <<Deconvolution2D_OutputY(x, w, parameters)>>
    /\ pc' = "done"
    /\ UNCHANGED <<parameters, warnings, err>>

(* ---------------------- deconvolution2d_test.py ------------------------ *)
\* the arguments of main in test_normal, test_large_stride, test_no_padding,
\* test_projection and test_fully_connected
Scenarios ==
    { [k |-> <<3>>, s |-> <<1>>, p |-> <<1>>, n |-> 2, h1 |-> 3, w1 |-> 4, c1 |-> 6, c2 |-> 5,
       expected_shape_dict |-> [N |-> 2, H |-> 3, W |-> 4, C |-> 5]],
      [k |-> <<3>>, s |-> <<2>>, p |-> <<1>>, n |-> 2, h1 |-> 3, w1 |-> 4, c1 |-> 6, c2 |-> 3,
       expected_shape_dict |-> [N |-> 2, H |-> 5, W |-> 7, C |-> 3]],
      [k |-> <<3>>, s |-> <<1>>, p |-> <<0>>, n |-> 2, h1 |-> 3, w1 |-> 5, c1 |-> 6, c2 |-> 3,
       expected_shape_dict |-> [N |-> 2, H |-> 5, W |-> 7, C |-> 3]],
      [k |-> <<1>>, s |-> <<1>>, p |-> <<0>>, n |-> 2, h1 |-> 5, w1 |-> 7, c1 |-> 6, c2 |-> 3,
       expected_shape_dict |-> [N |-> 2, H |-> 5, W |-> 7, C |-> 3]],
      [k |-> <<5, 7>>, s |-> <<1>>, p |-> <<0>>, n |-> 2, h1 |-> 1, w1 |-> 1, c1 |-> 6, c2 |-> 3,
       expected_shape_dict |-> [N |-> 2, H |-> 5, W |-> 7, C |-> 3]] }

\* the operator main builds for a scenario
ScenarioParameters(sc) ==
    [ksize |-> to_tuple(sc.k), stride |-> to_tuple(sc.s), padding |-> to_tuple(sc.p)]

\* x = Variable((n, h1, w1, c1), OrderNHWC); x.change_order(order_x)
TestX(sc, order_x) ==
    change_order(Variable(<<sc.n, sc.h1, sc.w1, sc.c1>>, OrderNHWC), order_x)

\* w = Variable((c1, op.ksize[0], op.ksize[1], c2), OrderCHWN); w.change_order(order_w)
TestW(sc, self, order_w) ==
    change_order(Variable(<<sc.c1, KH(self), KW(self), sc.c2>>, OrderCHWN), order_w)

\* main: op = Deconvolution2D(None, ksize=k, stride=s, padding=p)
main_construct ==
    /\ pc = "new"
    /\ \E sc \in Scenarios : Deconvolution2D_init(sc.k, sc.s, sc.p)

\* main: y, = op(x, w) for one pair of orders
main_apply ==
    /\ pc = "constructed"
    /\ \E sc \in Scenarios, order_x \in orders, order_w \in orders :
           /\ parameters = ScenarioParameters(sc)
           /\ Deconvolution2D_call(TestX(sc, order_x), TestW(sc, parameters, order_w))

NextDeconv == main_construct \/ main_apply

SpecDeconv == Init /\ [][NextDeconv]_vars

(* ------------------------- Pooling2D properties ------------------------ *)
\* kernel >= 1, stride >= 1, padding >= 0 in both spatial components
ValidParameters ==
    /\ pc # "new"
    /\ KH(parameters) >= 1 /\ KW(parameters) >= 1
    /\ SH(parameters) >= 1 /\ SW(parameters) >= 1
    /\ PH(parameters) >= 0 /\ PW(parameters) >= 0

Executed == pc = "done" /\ ValidParameters

InH == shape_dict(inputs["x"])["H"]
InW == shape_dict(inputs["x"])["W"]
OutH == shape_dict(outputs["y"])["H"]
OutW == shape_dict(outputs["y"])["W"]

\* the span left for the window to move over, per dimension
SpanH == InH + 2 * PH(parameters) - KH(parameters)
SpanW == InW + 2 * PW(parameters) - KW(parameters)

\* C1 as stated: for valid parameters the output height is
\* floor((H + 2*PH - SH - KH - 1) / SH) + 1 and the output width is
\* floor((W + 2*PW - SW - KW - 1) / SW) + 1.
C1_StrideSubtracted ==
    Executed =>
        /\ OutH = ((InH + 2 * PH(parameters) - SH(parameters) - KH(parameters) - 1)
                      \div SH(parameters)) + 1
        /\ OutW = ((InW + 2 * PW(parameters) - SW(parameters) - KW(parameters) - 1)
                      \div SW(parameters)) + 1

\* C1 amended: for valid parameters the output height is
\* floor((H + 2*PH + SH - KH - 1) / SH) + 1 and the output width is
\* floor((W + 2*PW + SW - KW - 1) / SW) + 1, each dimension with its own
\* kernel, stride and padding.
C1_StrideAdded ==
    Executed =>
        /\ OutH = ((InH + 2 * PH(parameters) + SH(parameters) - KH(parameters) - 1)
                      \div SH(parameters)) + 1
        /\ OutW = ((InW + 2 * PW(parameters) + SW(parameters) - KW(parameters) - 1)
                      \div SW(parameters)) + 1

\* an execution whose two dimensions differ in kernel, stride, padding and size
C1_Witness ==
    /\ Executed
    /\ KH(parameters) # KW(parameters)
    /\ SH(parameters) # SW(parameters)
    /\ PH(parameters) # PW(parameters)
    /\ InH # InW
    /\ OutH # OutW
    /\ inputs["x"].order = OrderCHWN

\* C2: for valid parameters each output spatial size is
\* floor((in + 2*pad - kernel) / stride) + 1, the truncating value, also when
\* (in + 2*pad - kernel) is not a multiple of stride.
C2_Truncating ==
    Executed =>
        /\ OutH = (SpanH \div SH(parameters)) + 1
        /\ OutW = (SpanW \div SW(parameters)) + 1

\* C3: after exec the output y has the order of the input x, it is the
\* operator's only output, under the name "y", and it is what exec returns.
C3_OrderPreserved ==
    pc = "done" =>
        /\ DOMAIN outputs = {"y"}
        /\ outputs["y"].order = inputs["x"].order
        /\ ret = <<outputs["y"]>>

\* an execution on an input that is not in N-H-W-C order
C3_Witness ==
    /\ pc = "done"
    /\ inputs["x"].order = OrderHWCN
    /\ outputs["y"].order = OrderHWCN
    /\ outputs["y"].shape # inputs["x"].shape

\* C4: the mapping axis -> size of y is the one exec gives for the same input
\* in N-H-W-C order; N and C are x's N and C; y's physical shape lists those
\* sizes in the positions of x's order.
C4_PermutationClosure ==
    pc = "done" =>
        LET x == inputs["x"]
            y == outputs["y"]
            canonical == OutputY(change_order(x, OrderNHWC), parameters)
        IN  /\ \A a \in Axis : shape_dict(y)[a] = shape_dict(canonical)[a]
            /\ shape_dict(y)["N"] = shape_dict(x)["N"]
            /\ shape_dict(y)["C"] = shape_dict(x)["C"]
            /\ \A i \in 1..4 : y.shape[i] = shape_dict(canonical)[x.order[i]]

\* an execution on a permuted input whose four output sizes are all different
C4_Witness ==
    /\ pc = "done"
    /\ inputs["x"].order = OrderCNHW
    /\ \A i, j \in 1..4 : outputs["y"].shape[i] = outputs["y"].shape[j] => i = j

\* the number of Tensorwise attributes scoped to an axis
TensorwiseCount(axis) ==
    Cardinality({i \in 1..Len(attributes) : attributes[i] = Tensorwise(axis)})

\* C5: after one exec the operator holds exactly one Tensorwise attribute for
\* each axis of x.order other than H and W, none for H or W, and nothing else.
C5_AttributeCompleteness ==
    pc = "done" =>
        /\ \A a \in AxesSet(inputs["x"].order) :
               TensorwiseCount(a) = IF a \in {"H", "W"} THEN 0 ELSE 1
        /\ Len(attributes) = Cardinality(AxesSet(inputs["x"].order) \ {"H", "W"})

\* an execution that emitted its attributes for an input with C before N
C5_Witness ==
    /\ pc = "done"
    /\ inputs["x"].order = OrderHWCN
    /\ attributes = <<Tensorwise("C"), Tensorwise("N")>>

\* C6: one exec reports the warning exactly once when either remainder is
\* non-zero and not at all when both are zero; a reported warning does not stop
\* exec, which still attaches and returns y.
C6_WarningOnce ==
    /\ Executed =>
           warnings = IF SpanH % SH(parameters) # 0 \/ SpanW % SW(parameters) # 0
                      THEN 1 ELSE 0
    /\ warnings > 0 =>
           /\ pc = "done"
           /\ "y" \in DOMAIN outputs
           /\ ret = <<outputs["y"]>>

\* an execution warned about the width alone
C6_Witness ==
    /\ Executed
    /\ SpanH % SH(parameters) = 0
    /\ SpanW % SW(parameters) # 0
    /\ warnings = 1
    /\ "y" \in DOMAIN outputs

\* C7: no operator exists with a kernel or stride below 1 or a padding below 0.
C7_InvalidParametersRejected ==
    pc # "new" => ValidParameters

\* C8: for valid parameters exec never attaches an output variable with a zero
\* or negative size; such an input ends in IncompatibleShapeError.
C8_NonPositiveExtentRejected ==
    /\ Executed => \A i \in 1..4 : outputs["y"].shape[i] >= 1
    /\ (ValidParameters /\ pc = "raised") => err = "IncompatibleShapeError"

\* C10: for valid parameters each output spatial size is
\* (span + S - 1) div S + 1 with span = in + 2*pad - kernel; it is
\* span / S + 1 exactly when S divides span and floor(span / S) + 2 exactly
\* when it does not.
C10_CeilingPlusOne ==
    Executed =>
        /\ OutH = ((SpanH + SH(parameters) - 1) \div SH(parameters)) + 1
        /\ OutW = ((SpanW + SW(parameters) - 1) \div SW(parameters)) + 1
        /\ (OutH = (SpanH \div SH(parameters)) + 1) <=> (SpanH % SH(parameters) = 0)
        /\ (OutW = (SpanW \div SW(parameters)) + 1) <=> (SpanW % SW(parameters) = 0)
        /\ (OutH = (SpanH \div SH(parameters)) + 2) <=> (SpanH % SH(parameters) # 0)
        /\ (OutW = (SpanW \div SW(parameters)) + 2) <=> (SpanW % SW(parameters) # 0)

\* an execution where the stride divides the height's span but not the width's
C10_Witness ==
    /\ Executed
    /\ SH(parameters) > 1 /\ SW(parameters) > 1
    /\ SpanH % SH(parameters) = 0
    /\ SpanW % SW(parameters) # 0
    /\ OutH = (SpanH \div SH(parameters)) + 1
    /\ OutW = (SpanW \div SW(parameters)) + 2


(* ---------------------- Deconvolution2D properties --------------------- *)
\* C9: for every pair of orders of x and w, y's N is x's N, y's H is
\* (H - 1)*SH - 2*PH + KH, y's W is (W - 1)*SW - 2*PW + KW and y's C is the
\* weight's output-channel count; the one formula gives the sizes each of the
\* five test scenarios expects.
C9_DeconvolutionShape ==
    pc = "done" =>
        LET x == inputs["x"]
            w == inputs["w"]
            y == outputs["y"]
        IN  /\ shape_dict(y)["N"] = shape_dict(x)["N"]
            /\ shape_dict(y)["H"] =
                   (shape_dict(x)["H"] - 1) * SH(parameters) - 2 * PH(parameters)
                       + KH(parameters)
            /\ shape_dict(y)["W"] =
                   (shape_dict(x)["W"] - 1) * SW(parameters) - 2 * PW(parameters)
                       + KW(parameters)
            /\ shape_dict(y)["C"] = shape_dict(w)["N"]
            /\ \A sc \in Scenarios :
                   parameters = ScenarioParameters(sc) =>
                       \A axis \in AxesSet(y.order) :
                           shape_dict(y)[axis] = sc.expected_shape_dict[axis]

\* the large-stride scenario on permuted x and w
C9_Witness ==
    /\ pc = "done"
    /\ SH(parameters) = 2
    /\ inputs["x"].order = OrderCHWN
    /\ inputs["w"].order = OrderHWNC
    /\ outputs["y"] = Variable(<<3, 5, 7, 2>>, OrderCHWN)

====
